---- MODULE Spec2Model ----
(***************************************************************************)
(* The roadmap data model of execution-items.types.ts: HealthStatus,       *)
(* ExecutionItem, OKRHierarchy, TableSortConfig and                        *)
(* ExecutionItemsApiResponse.  The declarations are modelled as what the   *)
(* type checker accepts: an interface is its table of fields (key, type,   *)
(* optional, readonly), a value belongs to it when it conforms to the      *)
(* table, and the operations are the ones the declarations permit on       *)
(* objects (writing a literal, assigning a writable field, deleting an     *)
(* optional one, pushing onto and splicing out of a child array).          *)
(* Objects live in a heap and are held by reference, as in JavaScript.     *)
(***************************************************************************)
EXTENDS Integers, Sequences, FiniteSets, TLC

VARIABLES
    declared,   \* the type annotation of the literal being written
    lit,        \* the object literal being written, key by key
    heap,       \* the allocated objects: heap[r] is the object of reference r
    items,      \* the top-level collection (a list, a response's data): references
    createdId,  \* createdId[r]: the id object r was created with
    nmut,       \* how many field writes, deletes and splices have been done
    last,       \* the last child array operation: its arguments, the subtree a
                \* removal cut off (sub), whether the hierarchy was a tree (tree)
    arrays,     \* the allocated arrays of items: arrays[a] is a sequence of references
    input,      \* the array passed to sortExecutionItems
    config,     \* the TableSortConfig passed to sortExecutionItems
    result,     \* the array sortExecutionItems returned (0: not called yet)
    currentPage,  \* ExecutionItemsList: the currentPage state
    response,     \* ExecutionItemsList: the response state (the one displayed)
    inflight,     \* the pages whose fetch has been started and has not resolved
    serverPages   \* how many pages the server has

sortVars == <<arrays, input, config, result>>
listVars == <<currentPage, response, inflight, serverPages>>
vars == <<declared, lit, heap, items, createdId, nmut, last, sortVars, listVars>>

----------------------------------------------------------------------------
(* Bounds of the model.                                                    *)

MaxObjs == 3
MaxItems == 2
MaxMutations == 2
MaxEdges == 2
MaxRemovals == 1
MaxLen == 3
MaxPage == 6
MaxServerPages == 4

----------------------------------------------------------------------------
(* JavaScript values, tagged with their runtime type.                      *)

Str(s) == [t |-> "string", s |-> s]
Num(n) == [t |-> "number", n |-> n]
Bool(b) == [t |-> "boolean", b |-> b]
DateV(d) == [t |-> "Date", d |-> d]
Undefined == [t |-> "undefined"]
Arr(a) == [t |-> "array", a |-> a]
ObjV(o) == [t |-> "object", o |-> o]
Ref(r) == [t |-> "ref", r |-> r]

EmptyObj == [k \in {} |-> Undefined]
Put(o, k, v) == [y \in DOMAIN o \cup {k} |-> IF y = k THEN v ELSE o[y]]
Drop(o, k) == [y \in DOMAIN o \ {k} |-> o[y]]

----------------------------------------------------------------------------
(* The declarations.                                                       *)

Field(key, type, optional, readonly) ==
    [key |-> key, type |-> type, optional |-> optional, readonly |-> readonly]

HealthStatus == {"on-track", "at-risk", "off-track"}

\* ExecutionItem with team declared optional (team?: string).
ExecutionItem_TeamOptional ==
    { Field("id", "string", FALSE, TRUE),
      Field("name", "string", FALSE, FALSE),
      Field("owner", "string", FALSE, FALSE),
      Field("projectManager", "string", FALSE, FALSE),
      Field("health", "HealthStatus", FALSE, FALSE),
      Field("team", "string", TRUE, FALSE),
      Field("type", "string", TRUE, FALSE),
      Field("description", "string", TRUE, FALSE),
      Field("createdAt", "Date", TRUE, FALSE),
      Field("updatedAt", "Date", TRUE, FALSE) }

ExecutionItem ==
    { Field("id", "string", FALSE, TRUE),
      Field("name", "string", FALSE, FALSE),
      Field("owner", "string", FALSE, FALSE),
      Field("projectManager", "string", FALSE, FALSE),
      Field("health", "HealthStatus", FALSE, FALSE),
      Field("team", "string", FALSE, FALSE),
      Field("type", "string", TRUE, FALSE),
      Field("description", "string", TRUE, FALSE),
      Field("createdAt", "Date", TRUE, FALSE),
      Field("updatedAt", "Date", TRUE, FALSE) }

\* OKRHierarchy declared without "extends ExecutionItem".
OKRHierarchy_Standalone ==
    { Field("keyResults", "OKRHierarchy[]", TRUE, FALSE),
      Field("initiatives", "OKRHierarchy[]", TRUE, FALSE),
      Field("features", "OKRHierarchy[]", TRUE, FALSE),
      Field("subFeatures", "OKRHierarchy[]", TRUE, FALSE) }

OKRHierarchy ==
    ExecutionItem \cup
    { Field("keyResults", "OKRHierarchy[]", TRUE, FALSE),
      Field("initiatives", "OKRHierarchy[]", TRUE, FALSE),
      Field("features", "OKRHierarchy[]", TRUE, FALSE),
      Field("subFeatures", "OKRHierarchy[]", TRUE, FALSE) }

\* TableSortConfig with column declared as a plain string.
TableSortConfig_ColumnString ==
    { Field("column", "string", FALSE, FALSE),
      Field("direction", "'asc' | 'desc'", FALSE, FALSE) }

TableSortConfig ==
    { Field("column", "keyof ExecutionItem", FALSE, FALSE),
      Field("direction", "'asc' | 'desc'", FALSE, FALSE) }

\* ExecutionItemsApiResponse with page declared without "?".
ExecutionItemsApiResponse_PageRequired ==
    { Field("data", "ExecutionItem[]", FALSE, FALSE),
      Field("total", "number", FALSE, FALSE),
      Field("page", "number", FALSE, FALSE),
      Field("limit", "number", TRUE, FALSE),
      Field("totalPages", "number", TRUE, FALSE),
      Field("hasMore", "boolean", TRUE, FALSE) }

\* ExecutionItemsApiResponse: the type argument T left out, so its default.
ExecutionItemsApiResponse ==
    { Field("data", "ExecutionItem[]", FALSE, FALSE),
      Field("total", "number", FALSE, FALSE),
      Field("page", "number", TRUE, FALSE),
      Field("limit", "number", TRUE, FALSE),
      Field("totalPages", "number", TRUE, FALSE),
      Field("hasMore", "boolean", TRUE, FALSE) }

KeyOf(decl) == {f.key : f \in decl}
RequiredKeys(decl) == {f.key : f \in {g \in decl : ~g.optional}}
OptionalKeys(decl) == {f.key : f \in {g \in decl : g.optional}}
ChildKeys == {f.key : f \in {g \in OKRHierarchy : g.type = "OKRHierarchy[]"}}

----------------------------------------------------------------------------
(* Assignability: what the type checker accepts as a value of a type.      *)
(* Typing is structural: a key the interface does not declare is ignored.  *)
(* An array element is a nested object or a reference into the heap; a     *)
(* reference already being checked (a cycle) is not checked again.         *)

RECURSIVE HasType(_, _, _, _)
RECURSIVE Conforms(_, _, _, _)

\* Array elements typed as any object (any[]).
ElementConforms_Any(h, e, decl, seen) == e.t \in {"object", "ref"}

ElementConforms(h, e, decl, seen) ==
    CASE e.t = "object" -> Conforms(h, e.o, decl, seen)
      [] e.t = "ref" ->
            /\ e.r \in DOMAIN h
            /\ IF e.r \in seen THEN TRUE
               ELSE Conforms(h, h[e.r], decl, seen \cup {e.r})
      [] OTHER -> FALSE

HasType(h, v, type, seen) ==
    CASE type = "string" -> v.t = "string"
      [] type = "number" -> v.t = "number"
      [] type = "boolean" -> v.t = "boolean"
      [] type = "Date" -> v.t = "Date"
      [] type = "HealthStatus" -> v.t = "string" /\ v.s \in HealthStatus
      [] type = "keyof ExecutionItem" -> v.t = "string" /\ v.s \in KeyOf(ExecutionItem)
      [] type = "'asc' | 'desc'" -> v.t = "string" /\ v.s \in {"asc", "desc"}
      [] type = "OKRHierarchy[]" ->
            /\ v.t = "array"
            /\ \A i \in DOMAIN v.a : ElementConforms(h, v.a[i], OKRHierarchy, seen)
      [] type = "ExecutionItem[]" ->
            /\ v.t = "array"
            /\ \A i \in DOMAIN v.a : ElementConforms(h, v.a[i], ExecutionItem, seen)

FieldConforms(h, o, f, seen) ==
    IF f.key \in DOMAIN o
    THEN \/ HasType(h, o[f.key], f.type, seen)
         \/ f.optional /\ o[f.key].t = "undefined"
    ELSE f.optional

\* o conforms to the interface decl: none of its fields fails.
Conforms(h, o, decl, seen) == {f \in decl : ~FieldConforms(h, o, f, seen)} = {}

IsExecutionItem(h, o) == Conforms(h, o, ExecutionItem, {})
\* OKRHierarchy as a type that ties each child array to one level: a node may
\* carry a child array only if its type is the level above that array's.
IsOKRHierarchy_LevelChecked(h, o) ==
    /\ Conforms(h, o, OKRHierarchy, {})
    /\ \A k \in DOMAIN o \cap {"keyResults", "initiatives", "features", "subFeatures"} :
          /\ "type" \in DOMAIN o
          /\ o["type"] =
                Str(CASE k = "keyResults" -> "Objective"
                      [] k = "initiatives" -> "Key Result"
                      [] k = "features" -> "Initiative"
                      [] k = "subFeatures" -> "Feature")

IsOKRHierarchy(h, o) == Conforms(h, o, OKRHierarchy, {})
IsTableSortConfig(o) == Conforms(<<>>, o, TableSortConfig, {})
IsExecutionItemsApiResponse(h, o) == Conforms(h, o, ExecutionItemsApiResponse, {})

Interface(name) ==
    CASE name = "ExecutionItem" -> ExecutionItem
      [] name = "OKRHierarchy" -> OKRHierarchy
      [] name = "TableSortConfig" -> TableSortConfig
      [] name = "ExecutionItemsApiResponse" -> ExecutionItemsApiResponse

Accepted(name, o) == Conforms(<<>>, o, Interface(name), {})


\* T[] for the interfaces an item type may be.
ArrayOf(T) ==
    CASE T = "ExecutionItem" -> "ExecutionItem[]"
      [] T = "OKRHierarchy" -> "OKRHierarchy[]"

\* sub extends base: every field of base is a field of sub, of the same type
\* and optional in sub only if it is optional in base.
Extends(sub, base) ==
    \A f \in base : \E g \in sub :
        g.key = f.key /\ g.type = f.type /\ (g.optional => f.optional)

\* The constraint on the type argument: T extends ExecutionItem.
SatisfiesConstraint(T) == Extends(Interface(T), ExecutionItem)

\* ExecutionItemsApiResponse<T>.
ExecutionItemsApiResponseOf(T) ==
    {f \in ExecutionItemsApiResponse : f.key # "data"}
        \cup {Field("data", ArrayOf(T), FALSE, FALSE)}

IsExecutionItemsApiResponseOf(h, o, T) ==
    /\ SatisfiesConstraint(T)
    /\ Conforms(h, o, ExecutionItemsApiResponseOf(T), {})

----------------------------------------------------------------------------
(* Writing an object literal under a type annotation.  The literal is      *)
(* written key by key; the values offered for a key hold well-typed and    *)
(* ill-typed ones, so that the compiler's verdict can go either way.        *)

TypeNames == {"ExecutionItem", "OKRHierarchy", "TableSortConfig", "ExecutionItemsApiResponse"}

\* The documented minimal item (required fields only).
MinimalItem ==
    [id |-> Str("exec-002"), name |-> Str("s1"), owner |-> Str("s1"),
     projectManager |-> Str("s1"), health |-> Str("at-risk"), team |-> Str("s1")]

\* An object that is no ExecutionItem: team is missing.
NotAnItem ==
    [id |-> Str("exec-009"), name |-> Str("s1"), owner |-> Str("s1"),
     projectManager |-> Str("s1"), health |-> Str("on-track")]

ConventionalTypes == {"Objective", "Key Result", "Initiative", "Feature", "Sub Feature"}

ItemCandidates(k) ==
    CASE k \in {"id", "name"} -> {Str("s1"), Num(1)}
      [] k \in {"owner", "projectManager", "team"} -> {Str("s1")}
      [] k = "health" -> {Str(x) : x \in HealthStatus \cup {"blocked"}}
      [] k = "type" -> {Str("Feature"), Num(1), Undefined}
      [] k = "description" -> {Str("s1"), Num(1)}
      [] k = "createdAt" -> {DateV(1), Str("2024-01-15")}
      [] k = "updatedAt" -> {DateV(2)}

NodeCandidates(k) ==
    CASE k = "type" -> {Str(x) : x \in ConventionalTypes \cup {"Epic"}}
      [] k \in ChildKeys ->
            { Arr(<<>>),
              Arr(<<ObjV(MinimalItem)>>),
              Arr(<<ObjV(Put(MinimalItem, "features", Arr(<<ObjV(MinimalItem)>>)))>>),
              Arr(<<ObjV(Put(MinimalItem, "features", Arr(<<ObjV(NotAnItem)>>)))>>),
              Arr(<<ObjV(NotAnItem)>>),
              Str("s1") }

SortCandidates(k) ==
    CASE k = "column" ->
            {Str(x) : x \in KeyOf(OKRHierarchy) \cup {"invalidColumn"}} \cup {Num(0)}
      [] k = "direction" -> {Str("asc"), Str("desc"), Str("ascending"), Num(1)}

ResponseCandidates(k) ==
    CASE k = "data" ->
            { Arr(<<>>),
              Arr(<<ObjV(MinimalItem)>>),
              Arr(<<ObjV(MinimalItem), ObjV(Put(MinimalItem, "id", Str("exec-003")))>>),
              Arr(<<ObjV(Put(MinimalItem, "keyResults", Arr(<<ObjV(MinimalItem)>>)))>>),
              Arr(<<ObjV(Put(MinimalItem, "keyResults", Arr(<<ObjV(NotAnItem)>>)))>>),
              Arr(<<ObjV(NotAnItem)>>) }
      [] k = "total" -> {Num(0), Num(1), Num(2), Num(47), Str("2")}
      [] k = "page" -> {Num(1), Num(5)}
      [] k = "limit" -> {Num(1), Num(2), Num(10)}
      [] k = "totalPages" -> {Num(0), Num(1), Num(2), Num(5)}
      [] k = "hasMore" -> {Bool(TRUE), Bool(FALSE), Str("yes")}

KeysOffered(name) ==
    CASE name = "ExecutionItem" -> KeyOf(ExecutionItem)
      [] name = "OKRHierarchy" -> ChildKeys \cup {"type"}
      [] name = "TableSortConfig" -> KeyOf(TableSortConfig)
      [] name = "ExecutionItemsApiResponse" -> KeyOf(ExecutionItemsApiResponse)

Candidates(name, k) ==
    CASE name = "ExecutionItem" -> ItemCandidates(k)
      [] name = "OKRHierarchy" -> NodeCandidates(k)
      [] name = "TableSortConfig" -> SortCandidates(k)
      [] name = "ExecutionItemsApiResponse" -> ResponseCandidates(k)

\* A node literal starts from the required fields; the others start empty.
StartLiteral(name) == IF name = "OKRHierarchy" THEN MinimalItem ELSE EmptyObj

NoOp == [op |-> "none"]

Null == [t |-> "null"]

\* No sort has been set up, and no list component has been mounted.
SortIdle == arrays = <<>> /\ input = 0 /\ config = NoOp /\ result = 0
ListIdle == currentPage = 0 /\ response = Null /\ inflight = {} /\ serverPages = 0

InitLit ==
    /\ SortIdle /\ ListIdle
    /\ declared \in TypeNames
    /\ lit = StartLiteral(declared)
    /\ heap = <<>>
    /\ items = <<>>
    /\ createdId = <<>>
    /\ nmut = 0
    /\ last = NoOp

WriteKey(k, v) ==
    /\ lit' = Put(lit, k, v)
    /\ UNCHANGED <<sortVars, listVars, declared, heap, items, createdId, nmut, last>>

NextLit == \E k \in KeysOffered(declared) : \E v \in Candidates(declared, k) : WriteKey(k, v)

SpecLit == InitLit /\ [][NextLit]_vars

\* The type checker's verdict on the literal under its annotation.
LitAccepted == Accepted(declared, lit)

----------------------------------------------------------------------------
(* Objects on the heap.  The operations are the ones the declarations      *)
(* permit on a value of the declared type: a field that is not readonly    *)
(* may be assigned a value of its type, an optional one may be deleted,    *)
(* and an array (none is declared readonly) may be pushed onto and         *)
(* spliced.                                                                *)

\* Writable with the readonly modifier ignored.
Writable_IgnoresReadonly(decl) == decl

\* The fields of an interface that an assignment may target.
Writable(decl) == {f \in decl : ~f.readonly}

\* The fields of an interface that delete may target.
Deletable(decl) == {f \in decl : f.optional /\ ~f.readonly}

\* v may be assigned to field f of an object of the heap h.
Assignable(h, f, v) ==
    IF HasType(h, v, f.type, {}) THEN TRUE ELSE f.optional /\ v.t = "undefined"

Range(q) == {q[i] : i \in DOMAIN q}

\* Array.prototype.push with both arguments pushed.
Push_Twice(a, e) == Append(Append(a, e), e)

\* Array.prototype.push.
Push(a, e) == Append(a, e)

\* Array.prototype.splice(i, 1) that removes nothing.
RemoveAt_Nothing(a, i) == a

\* Array.prototype.splice(i, 1): the array without its i-th element.
RemoveAt(a, i) == SubSeq(a, 1, i - 1) \o SubSeq(a, i + 1, Len(a))

----------------------------------------------------------------------------
(* A flat collection of ExecutionItems: creation, field writes, deletes    *)
(* of optional fields, removal from the collection.                        *)

ItemLiterals ==
    LET full(o) == Put(Put(Put(Put(o, "type", Str("Feature")), "description", Str("s1")),
                           "createdAt", DateV(1)), "updatedAt", DateV(2))
    IN { Put(MinimalItem, "id", Str("exec-001")),
         MinimalItem,
         full(Put(MinimalItem, "id", Str("exec-001"))),
         NotAnItem,
         Put(MinimalItem, "health", Str("blocked")) }

WriteCandidates(k) ==
    CASE k = "id" -> {Str("exec-001"), Str("exec-002")}
      [] k \in {"name", "owner", "projectManager", "team"} -> {Str("s2"), Num(1)}
      [] k = "health" -> {Str("on-track"), Str("off-track"), Str("blocked")}
      [] k = "type" -> {Str("Initiative"), Undefined}
      [] k = "description" -> {Str("s2")}
      [] k = "createdAt" -> {DateV(1), Str("2024-01-15")}
      [] k = "updatedAt" -> {DateV(3)}

InitItems ==
    /\ SortIdle /\ ListIdle
    /\ declared = "ExecutionItem"
    /\ lit = EmptyObj
    /\ heap = <<>>
    /\ items = <<>>
    /\ createdId = <<>>
    /\ nmut = 0
    /\ last = NoOp

\* const item: ExecutionItem = {...}; items.push(item)
CreateItem(l) ==
    /\ Len(heap) < MaxItems
    /\ IsExecutionItem(heap, l)
    /\ heap' = Append(heap, l)
    /\ items' = Push(items, Len(heap) + 1)
    /\ createdId' = Append(createdId, l["id"].s)
    /\ UNCHANGED <<sortVars, listVars, declared, lit, nmut, last>>

\* items[i].k = v
SetField(r, k, v) ==
    /\ nmut < MaxMutations
    /\ \E f \in Writable(ExecutionItem) :
          /\ f.key = k
          /\ Assignable(heap, f, v)
    /\ heap' = [heap EXCEPT ![r] = Put(@, k, v)]
    /\ nmut' = nmut + 1
    /\ UNCHANGED <<sortVars, listVars, declared, lit, items, createdId, last>>

\* delete items[i].k
DeleteField(r, k) ==
    /\ nmut < MaxMutations
    /\ k \in DOMAIN heap[r]
    /\ \E f \in Deletable(ExecutionItem) : f.key = k
    /\ heap' = [heap EXCEPT ![r] = Drop(@, k)]
    /\ nmut' = nmut + 1
    /\ UNCHANGED <<sortVars, listVars, declared, lit, items, createdId, last>>

\* items.splice(i, 1)
RemoveItem(i) ==
    /\ items' = RemoveAt(items, i)
    /\ UNCHANGED <<sortVars, listVars, declared, lit, heap, createdId, nmut, last>>

NextItems ==
    \/ \E l \in ItemLiterals : CreateItem(l)
    \/ \E r \in Range(items) : \E k \in KeyOf(ExecutionItem) :
          \E v \in WriteCandidates(k) : SetField(r, k, v)
    \/ \E r \in Range(items) : \E k \in KeyOf(ExecutionItem) : DeleteField(r, k)
    \/ \E i \in DOMAIN items : RemoveItem(i)

SpecItems == InitItems /\ [][NextItems]_vars

----------------------------------------------------------------------------
(* A hierarchy of OKRHierarchy nodes.  A child array holds references; a   *)
(* node is created as a root of the collection, as a new child of a node,  *)
(* or as a local object; an existing object may be pushed onto a child     *)
(* array when the array still has its declared type; a child is removed    *)
(* by splicing it out of its parent's array.                               *)

\* The ids of the documented full hierarchy, by order of allocation.
NodeIds == <<"obj-001", "kr-001", "init-001", "feat-001", "subfeat-001">>

NodeLiteral(r) == Put(MinimalItem, "id", Str(NodeIds[r]))

\* The references a node's child arrays hold.
ChildArray(h, p, k) ==
    IF k \in DOMAIN h[p] /\ h[p][k].t = "array" THEN h[p][k].a ELSE <<>>

Children(h, p) ==
    UNION {{ChildArray(h, p, k)[i].r : i \in DOMAIN ChildArray(h, p, k)} : k \in ChildKeys}

RECURSIVE ReachFrom(_, _)
\* The nodes reachable from the set S through child arrays, S included.
ReachFrom(h, S) ==
    LET N == S \cup UNION {Children(h, p) : p \in S}
    IN IF N = S THEN S ELSE ReachFrom(h, N)

Descendants(h, p) == ReachFrom(h, Children(h, p))

\* How many entries of p's child array k refer to c.
CountIn(h, p, k, c) ==
    IF p \in DOMAIN h
    THEN Cardinality({i \in DOMAIN ChildArray(h, p, k) : ChildArray(h, p, k)[i] = Ref(c)})
    ELSE 0

\* The entries of all child arrays: <<parent, array name, index>>.
Positions(h) ==
    UNION {{<<x[1], x[2], i>> : i \in DOMAIN ChildArray(h, x[1], x[2])} :
              x \in (DOMAIN h) \X ChildKeys}

\* How many entries of all child arrays refer to c.
Occurrences(h, c) ==
    Cardinality({x \in Positions(h) : ChildArray(h, x[1], x[2])[x[3]] = Ref(c)})

\* How many entries of the root collection and of all child arrays refer to c.
Owners(h, roots, c) ==
    Cardinality({i \in DOMAIN roots : roots[i] = c}) + Occurrences(h, c)

\* The number of entries of all child arrays.
EdgeCount(h) == Cardinality(Positions(h))

InitTree ==
    /\ SortIdle /\ ListIdle
    /\ declared = "OKRHierarchy"
    /\ lit = EmptyObj
    /\ heap = <<>>
    /\ items = <<>>
    /\ createdId = <<>>
    /\ nmut = 0
    /\ last = NoOp

\* const x = {...}: an object held by a local variable, of whatever shape,
\* made before the hierarchy is built.
CreateLocal(l) ==
    /\ Len(heap) < MaxObjs
    /\ heap = <<>>
    /\ heap' = Append(heap, l)
    /\ createdId' = Append(createdId, l["id"].s)
    /\ last' = NoOp
    /\ UNCHANGED <<sortVars, listVars, declared, lit, items, nmut>>

\* data = [{...}]: a new node, the root of the hierarchy.
CreateRoot ==
    /\ items = <<>>
    /\ Len(heap) < MaxObjs
    /\ LET l == NodeLiteral(Len(heap) + 1) IN
          /\ IsOKRHierarchy(heap, l)
          /\ heap' = Append(heap, l)
          /\ createdId' = Append(createdId, l["id"].s)
    /\ items' = Push(items, Len(heap) + 1)
    /\ last' = NoOp
    /\ UNCHANGED <<sortVars, listVars, declared, lit, nmut>>

\* The heap h with the reference c pushed onto p's child array k (the array
\* is created when p has none).
WithChild(h, p, k, c) ==
    [h EXCEPT ![p] = Put(@, k, Arr(Push(ChildArray(h, p, k), Ref(c))))]

\* p.k = [...(p.k ?? []), {...}]: a new node as a child of p.
CreateChild(p, k) ==
    /\ Len(heap) < MaxObjs
    /\ EdgeCount(heap) < MaxEdges
    /\ IsOKRHierarchy(heap, heap[p])
    /\ LET c == Len(heap) + 1
           h == Append(heap, NodeLiteral(c))
       IN /\ \E f \in Writable(OKRHierarchy) :
                f.key = k /\ Assignable(h, f, WithChild(h, p, k, c)[p][k])
          /\ heap' = WithChild(h, p, k, c)
          /\ createdId' = Append(createdId, NodeIds[c])
    /\ last' = NoOp
    /\ UNCHANGED <<sortVars, listVars, declared, lit, items, nmut>>

\* p.k = [...(p.k ?? []), c]: an object that exists already as a child of p.
AttachExisting(p, k, c) ==
    /\ EdgeCount(heap) < MaxEdges
    /\ IsOKRHierarchy(heap, heap[p])
    /\ \E f \in Writable(OKRHierarchy) :
          f.key = k /\ Assignable(heap, f, WithChild(heap, p, k, c)[p][k])
    /\ heap' = WithChild(heap, p, k, c)
    /\ last' = NoOp
    /\ UNCHANGED <<sortVars, listVars, declared, lit, items, createdId, nmut>>

\* p.k.splice(i - 1, 1): the i-th child of p's array k is removed.
RemoveChild(p, k, i) ==
    /\ nmut < MaxRemovals
    /\ i \in DOMAIN ChildArray(heap, p, k)
    /\ heap' = [heap EXCEPT ![p] = Put(@, k, Arr(RemoveAt(ChildArray(heap, p, k), i)))]
    /\ nmut' = nmut + 1
    /\ last' = [op |-> "removeChild", p |-> p, k |-> k, i |-> i,
                 sub |-> ReachFrom(heap, {ChildArray(heap, p, k)[i].r}),
                 tree |-> \A c \in DOMAIN heap : Owners(heap, items, c) <= 1]
    /\ UNCHANGED <<sortVars, listVars, declared, lit, items, createdId>>

\* The child arrays the hierarchy operations write: the first and the last
\* of the four, which are declared alike.
TreeKeys == {"keyResults", "subFeatures"}

NextTree ==
    \/ CreateLocal(NotAnItem)
    \/ CreateRoot
    \/ \E p \in DOMAIN heap : \E k \in TreeKeys : CreateChild(p, k)
    \/ \E p \in DOMAIN heap : \E k \in TreeKeys : \E c \in DOMAIN heap :
          AttachExisting(p, k, c)
    \/ \E p \in DOMAIN heap : \E k \in TreeKeys : \E i \in 1..MaxEdges :
          RemoveChild(p, k, i)

SpecTree == InitTree /\ [][NextTree]_vars

----------------------------------------------------------------------------
(* The documented sortExecutionItems(items, config): it copies the array   *)
(* and sorts the copy with a comparator on the configured column.          *)
(* Array.prototype.sort returns the stable sorted order when the           *)
(* comparator is a consistent comparison function for the elements, and    *)
(* an order that is left to the implementation when it is not.             *)

\* The strings of the items below in the order of their UTF-16 code units,
\* which is the order < has on strings.
CodeUnitOrder ==
    << "Alice Brown", "Bob Wilson", "Core module", "Feature", "Feature A",
       "Feature B", "Feature C", "Initiative", "Jane Smith", "John Doe",
       "Squad 1", "Squad 2", "at-risk", "exec-001", "exec-002", "exec-003",
       "off-track", "on-track" >>

StrRank(s) == CHOOSE i \in DOMAIN CodeUnitOrder : CodeUnitOrder[i] = s

\* v < w on two strings or on two Dates (compared by their time values).
Less(v, w) ==
    CASE v.t = "string" /\ w.t = "string" -> StrRank(v.s) < StrRank(w.s)
      [] v.t = "Date" /\ w.t = "Date" -> v.d < w.d
      [] OTHER -> FALSE

\* o[k]: undefined when o has no property k.
Get(o, k) == IF k \in DOMAIN o THEN o[k] ELSE Undefined

\* The comparator passed to sort: (a, b) => ... of the objects a and b of
\* the heap h.
Compare(h, a, b, cfg) ==
    LET aValue == Get(h[a], cfg.column)
        bValue == Get(h[b], cfg.column)
    IN IF aValue.t = "undefined" \/ bValue.t = "undefined" THEN 0
       ELSE LET comparison ==
                    IF Less(aValue, bValue) THEN -1
                    ELSE IF Less(bValue, aValue) THEN 1 ELSE 0
            IN IF cfg.direction = "asc" THEN comparison ELSE -comparison

\* The comparator is a consistent comparison function for the objects S.
ConsistentComparator(h, S, cfg) ==
    \A a, b, c \in S :
        /\ Compare(h, a, a, cfg) = 0
        /\ Compare(h, a, b, cfg) = 0 => Compare(h, b, a, cfg) = 0
        /\ (Compare(h, a, b, cfg) = 0 /\ Compare(h, b, c, cfg) = 0)
              => Compare(h, a, c, cfg) = 0
        /\ (Compare(h, a, b, cfg) < 0 /\ Compare(h, b, c, cfg) < 0)
              => Compare(h, a, c, cfg) < 0
        /\ (Compare(h, a, b, cfg) > 0 /\ Compare(h, b, c, cfg) > 0)
              => Compare(h, a, c, cfg) > 0

Orderings(n) ==
    {p \in [1..n -> 1..n] : \A i, j \in 1..n : i # j => p[i] # p[j]}

\* Every order of the elements of the list l.
Reordered(l) == {[i \in 1..Len(l) |-> l[p[i]]] : p \in Orderings(Len(l))}

\* The sorted orders of l that keep elements comparing equal in their order.
StableSorted(h, l, cfg) ==
    { [i \in 1..Len(l) |-> l[p[i]]] :
        p \in { q \in Orderings(Len(l)) :
                  \A i, j \in 1..Len(l) :
                      i < j => \/ Compare(h, l[q[i]], l[q[j]], cfg) < 0
                               \/ /\ Compare(h, l[q[i]], l[q[j]], cfg) = 0
                                  /\ q[i] < q[j] } }

\* What Array.prototype.sort may leave in an array that held l.
SortOutcomes(h, l, cfg) ==
    IF ConsistentComparator(h, Range(l), cfg)
    THEN StableSorted(h, l, cfg)
    ELSE Reordered(l)

\* items passed on as it is, without [...items].
Spread_Alias(arrs, a) == [arrays |-> arrs, ref |-> a]

\* [...items]: a new array with the elements of the array a.
Spread(arrs, a) == [arrays |-> Append(arrs, arrs[a]), ref |-> Len(arrs) + 1]

\* The items the lists to sort are made of: the second has none of the
\* optional fields, the first and the third share updatedAt and the first
\* and the second share owner.
SortPool ==
    << [id |-> Str("exec-001"), name |-> Str("Feature B"), owner |-> Str("John Doe"),
        projectManager |-> Str("Jane Smith"), health |-> Str("on-track"),
        team |-> Str("Squad 1"), type |-> Str("Initiative"),
        createdAt |-> DateV(2), updatedAt |-> DateV(3)],
       [id |-> Str("exec-002"), name |-> Str("Feature A"), owner |-> Str("John Doe"),
        projectManager |-> Str("Bob Wilson"), health |-> Str("at-risk"),
        team |-> Str("Squad 2")],
       [id |-> Str("exec-003"), name |-> Str("Feature C"), owner |-> Str("Alice Brown"),
        projectManager |-> Str("Jane Smith"), health |-> Str("off-track"),
        team |-> Str("Squad 1"), type |-> Str("Feature"),
        description |-> Str("Core module"),
        createdAt |-> DateV(1), updatedAt |-> DateV(3)] >>

InitSort ==
    /\ ListIdle
    /\ declared = "TableSortConfig"
    /\ lit = EmptyObj
    /\ heap = SortPool
    /\ items = <<>>
    /\ createdId = <<>>
    /\ nmut = 0
    /\ last = NoOp
    /\ \E n \in 0..MaxLen : \E l \in [1..n -> DOMAIN SortPool] : arrays = <<l>>
    /\ input = 1
    /\ config \in [column : KeyOf(ExecutionItem), direction : {"asc", "desc"}]
    /\ result = 0

\* const sorted = sortExecutionItems(items, config)
sortExecutionItems ==
    /\ result = 0
    /\ IsTableSortConfig([column |-> Str(config.column),
                          direction |-> Str(config.direction)])
    /\ {i \in DOMAIN arrays[input] : ~IsExecutionItem(heap, heap[arrays[input][i]])} = {}
    /\ LET c == Spread(arrays, input) IN
          \E s \in SortOutcomes(heap, c.arrays[c.ref], config) :
              /\ arrays' = [c.arrays EXCEPT ![c.ref] = s]
              /\ result' = c.ref
    /\ UNCHANGED <<declared, lit, heap, items, createdId, nmut, last,
                   input, config, listVars>>

NextSort == sortExecutionItems

SpecSort == InitSort /\ [][NextSort]_vars

----------------------------------------------------------------------------
(* The documented ExecutionItemsList component.  Mounting it renders       *)
(* "Loading..." and runs the effect, which starts the fetch of page 1; a   *)
(* click on Load More sets currentPage, and the effect, which depends on   *)
(* currentPage, starts a fetch of the new page; a fetch that resolves      *)
(* calls setResponse, whichever fetch it is.  The server is not part of    *)
(* the repository: it answers a request for page p the way the documented  *)
(* paginated responses do, with hasMore telling whether pages follow p.    *)

\* What fetchExecutionItems(p, 10) resolves to.
ServerResponse(p) ==
    [forPage |-> p, page |-> Num(p), limit |-> Num(10),
     totalPages |-> Num(serverPages), hasMore |-> Bool(p < serverPages)]

\* {response.hasMore && <button ...>Load More</button>}, below the
\* early return of "Loading..." while response is null.
LoadMoreOffered == response # Null /\ response.hasMore = Bool(TRUE)

InitList ==
    /\ SortIdle
    /\ declared = "ExecutionItemsApiResponse"
    /\ lit = EmptyObj
    /\ heap = <<>>
    /\ items = <<>>
    /\ createdId = <<>>
    /\ nmut = 0
    /\ last = NoOp
    /\ serverPages \in 1..MaxServerPages
    /\ currentPage = 1
    /\ response = Null
    /\ inflight = {1}

\* onClick={() => setCurrentPage(prev => prev + 1)}, the render that
\* follows and its effect fetchExecutionItems(currentPage, 10).
LoadMoreClick ==
    /\ LoadMoreOffered
    /\ currentPage < MaxPage
    /\ currentPage' = currentPage + 1
    /\ inflight' = inflight \cup {currentPage + 1}
    /\ UNCHANGED <<declared, lit, heap, items, createdId, nmut, last,
                   sortVars, response, serverPages>>

\* .then(setResponse) of the fetch of page p.
FetchResolved(p) ==
    /\ p \in inflight
    /\ response' = ServerResponse(p)
    /\ inflight' = inflight \ {p}
    /\ UNCHANGED <<declared, lit, heap, items, createdId, nmut, last,
                   sortVars, currentPage, serverPages>>

NextList ==
    \/ LoadMoreClick
    \/ \E p \in inflight : FetchResolved(p)

SpecList == InitList /\ [][NextList]_vars

----------------------------------------------------------------------------
(* Claims about the declared shapes, checked under SpecLit.                *)

RequiredSix == {"id", "name", "owner", "projectManager", "health", "team"}
TenColumns ==
    {"id", "name", "owner", "projectManager", "health", "team",
     "type", "description", "createdAt", "updatedAt"}
FourChildArrays == {"keyResults", "initiatives", "features", "subFeatures"}

\* The six required fields are present in o, the five text ones strings and
\* health one of the three statuses.
SixRequiredValid(o) ==
    /\ RequiredSix \subseteq DOMAIN o
    /\ \A k \in RequiredSix : o[k].t = "string"
    /\ o["health"].s \in {"on-track", "at-risk", "off-track"}

\* C1: every value accepted as an ExecutionItem has id, name, owner,
\* projectManager, health and team present, with health one of on-track,
\* at-risk, off-track; and a literal holding exactly the six required fields
\* (type, description, createdAt, updatedAt all absent) is accepted.
C1_RequiredFieldsAndHealth ==
    /\ IsExecutionItem(<<>>, lit) => SixRequiredValid(lit)
    /\ (DOMAIN lit = RequiredSix /\ SixRequiredValid(lit)) => IsExecutionItem(<<>>, lit)

\* A literal with only the six required fields has been written and accepted.
C1_MinimalItemAccepted ==
    /\ declared = "ExecutionItem"
    /\ DOMAIN lit = RequiredSix
    /\ IsExecutionItem(<<>>, lit)

\* C7: a node with valid required fields, any type (or none) and any subset
\* of the four child arrays, each empty or holding a valid node, is accepted
\* as an OKRHierarchy, whatever level its type names.
C7_AnyChildArrayAtAnyLevel ==
    ( /\ DOMAIN lit \subseteq RequiredSix \cup {"type"} \cup FourChildArrays
      /\ SixRequiredValid(lit)
      /\ "type" \in DOMAIN lit => lit["type"].t = "string"
      /\ \A k \in FourChildArrays \cap DOMAIN lit :
            lit[k] \in {Arr(<<>>), Arr(<<ObjV(MinimalItem)>>)} )
    => IsOKRHierarchy(<<>>, lit)

\* A node of type 'Sub Feature' carrying a keyResults array has been accepted.
C7_SubFeatureWithKeyResults ==
    /\ declared = "OKRHierarchy"
    /\ "type" \in DOMAIN lit /\ lit["type"] = Str("Sub Feature")
    /\ "keyResults" \in DOMAIN lit /\ lit["keyResults"] = Arr(<<ObjV(MinimalItem)>>)
    /\ IsOKRHierarchy(<<>>, lit)

\* C8: every value accepted as a TableSortConfig has column among exactly the
\* ten ExecutionItem field names (so none of the four child array names) and
\* direction asc or desc; and each of the ten names, with asc or desc, is
\* accepted.
C8_SortConfigDomain ==
    /\ IsTableSortConfig(lit) =>
          /\ {"column", "direction"} \subseteq DOMAIN lit
          /\ lit["column"].t = "string" /\ lit["column"].s \in TenColumns
          /\ lit["direction"].t = "string" /\ lit["direction"].s \in {"asc", "desc"}
    /\ ( /\ DOMAIN lit = {"column", "direction"}
         /\ lit["column"] \in {Str(c) : c \in TenColumns}
         /\ lit["direction"] \in {Str("asc"), Str("desc")} )
       => IsTableSortConfig(lit)

\* A config sorting by an optional column, descending, has been accepted, and
\* so the compiler was also offered (and refused) the child array names.
C8_SortByUpdatedAtDesc ==
    /\ declared = "TableSortConfig"
    /\ DOMAIN lit = {"column", "direction"}
    /\ lit["column"] = Str("updatedAt") /\ lit["direction"] = Str("desc")
    /\ IsTableSortConfig(lit)

\* The least n with n * b >= a (the ceiling of a / b), for a >= 0 and b > 0.
CeilDiv(a, b) == CHOOSE n \in 0..a : n * b >= a /\ (n = 0 \/ (n - 1) * b < a)

\* C9: in every value accepted as an ExecutionItemsApiResponse the number of
\* items in data is at most total.
C9_DataWithinTotal ==
    IsExecutionItemsApiResponse(<<>>, lit) => Len(lit["data"].a) <= lit["total"].n

\* C10: in every value accepted as an ExecutionItemsApiResponse with page,
\* limit and totalPages all present, totalPages is the ceiling of
\* total / limit.
C10_TotalPagesIsCeiling ==
    ( /\ IsExecutionItemsApiResponse(<<>>, lit)
      /\ {"page", "limit", "totalPages"} \subseteq DOMAIN lit )
    => lit["totalPages"].n = CeilDiv(lit["total"].n, lit["limit"].n)

PaginationKeys == {"page", "limit", "totalPages", "hasMore"}

\* C11: in every value accepted as an ExecutionItemsApiResponse with page,
\* limit, totalPages and hasMore all absent, total is the number of items in
\* data.
C11_TotalIsLengthUnpaginated ==
    ( /\ IsExecutionItemsApiResponse(<<>>, lit)
      /\ DOMAIN lit \cap PaginationKeys = {} )
    => lit["total"].n = Len(lit["data"].a)

\* The documented first page of many, with all four pagination fields.
PaginatedResponse ==
    [data |-> Arr(<<ObjV(MinimalItem)>>), total |-> Num(47), page |-> Num(1),
     limit |-> Num(10), totalPages |-> Num(5), hasMore |-> Bool(TRUE)]

\* data is an array of items and total a number.
DataAndTotalValid(o) ==
    /\ {"data", "total"} \subseteq DOMAIN o
    /\ o["data"].t = "array"
    /\ \A i \in DOMAIN o["data"].a :
          o["data"].a[i].t = "object" /\ SixRequiredValid(o["data"].a[i].o)
    /\ o["total"].t = "number"

\* C12: every value accepted as an ExecutionItemsApiResponse has data (an
\* array, possibly empty) and total (a number); a value with valid data and
\* total is accepted whichever of page, limit, totalPages and hasMore it
\* carries, as long as those it carries are well typed; and each of the 16
\* subsets of the four, taken from the documented paginated response, is
\* accepted.
C12_AnyPaginationCombination ==
    /\ IsExecutionItemsApiResponse(<<>>, lit) =>
          /\ {"data", "total"} \subseteq DOMAIN lit
          /\ lit["data"].t = "array"
          /\ lit["total"].t = "number"
    /\ ( /\ declared = "ExecutionItemsApiResponse"
         /\ DataAndTotalValid(lit)
         /\ \A k \in DOMAIN lit \cap {"page", "limit", "totalPages"} : lit[k].t = "number"
         /\ "hasMore" \in DOMAIN lit => lit["hasMore"].t = "boolean" )
       => IsExecutionItemsApiResponse(<<>>, lit)
    /\ \A S \in SUBSET PaginationKeys :
          IsExecutionItemsApiResponse(<<>>,
              [k \in {"data", "total"} \cup S |-> PaginatedResponse[k]])

\* The infinite scroll style has been accepted: limit and hasMore present,
\* page and totalPages absent, data empty.
C12_InfiniteScrollAccepted ==
    /\ declared = "ExecutionItemsApiResponse"
    /\ DOMAIN lit = {"data", "total", "limit", "hasMore"}
    /\ lit["data"] = Arr(<<>>)
    /\ IsExecutionItemsApiResponse(<<>>, lit)

\* C13: in every value accepted as an ExecutionItemsApiResponse with page
\* and totalPages present, hasMore is true exactly when page < totalPages
\* (false or absent otherwise).
C13_HasMoreIffPagesLeft ==
    ( /\ IsExecutionItemsApiResponse(<<>>, lit)
      /\ {"page", "totalPages"} \subseteq DOMAIN lit )
    => ( ("hasMore" \in DOMAIN lit /\ lit["hasMore"] = Bool(TRUE))
            <=> lit["page"].n < lit["totalPages"].n )

\* Every element of the array v is an OKRHierarchy tree.
AllTrees(v) ==
    /\ v.t = "array"
    /\ \A i \in DOMAIN v.a : v.a[i].t = "object" /\ IsOKRHierarchy(<<>>, v.a[i].o)

\* C14: the type argument of ExecutionItemsApiResponse must extend
\* ExecutionItem (OKRHierarchy does, TableSortConfig does not) and defaults
\* to ExecutionItem; every value accepted as an OKRHierarchy is accepted as
\* an ExecutionItem; and a response whose data elements are OKRHierarchy
\* trees is accepted as ExecutionItemsApiResponse<OKRHierarchy> and as
\* ExecutionItemsApiResponse.
C14_HierarchyIsItem ==
    /\ SatisfiesConstraint("OKRHierarchy") /\ SatisfiesConstraint("ExecutionItem")
    /\ ~SatisfiesConstraint("TableSortConfig")
    /\ ExecutionItemsApiResponseOf("ExecutionItem") = ExecutionItemsApiResponse
    /\ IsOKRHierarchy(<<>>, lit) => (IsExecutionItem(<<>>, lit) /\ SixRequiredValid(lit))
    /\ \A k \in DOMAIN lit :
          (lit[k].t = "array" /\ AllTrees(lit[k])) => HasType(<<>>, lit[k], "ExecutionItem[]", {})
    /\ ( /\ declared = "ExecutionItemsApiResponse"
         /\ {"data", "total"} \subseteq DOMAIN lit
         /\ AllTrees(lit["data"])
         /\ lit["total"].t = "number"
         /\ \A k \in DOMAIN lit \cap {"page", "limit", "totalPages"} : lit[k].t = "number"
         /\ "hasMore" \in DOMAIN lit => lit["hasMore"].t = "boolean" )
       => /\ IsExecutionItemsApiResponseOf(<<>>, lit, "OKRHierarchy")
          /\ IsExecutionItemsApiResponse(<<>>, lit)

\* A response whose only item is a node with a keyResults child has been
\* accepted as ExecutionItemsApiResponse<OKRHierarchy>.
C14_HierarchicalResponseAccepted ==
    /\ declared = "ExecutionItemsApiResponse"
    /\ DOMAIN lit = {"data", "total"}
    /\ lit["data"] = Arr(<<ObjV(Put(MinimalItem, "keyResults", Arr(<<ObjV(MinimalItem)>>)))>>)
    /\ lit["total"] = Num(1)
    /\ IsExecutionItemsApiResponseOf(<<>>, lit, "OKRHierarchy")

----------------------------------------------------------------------------
(* Claims about items in a collection, checked under SpecItems.            *)

\* C2: whatever fields of an item are written or deleted, its id is the id
\* it was created with.
C2_IdNeverReassigned ==
    \A r \in DOMAIN heap :
        /\ "id" \in DOMAIN heap[r]
        /\ heap[r]["id"] = Str(createdId[r])

\* Two writes or deletes have been done and some item's name and health are
\* no longer the ones it was created with.
C2_ItemMutated ==
    /\ nmut >= 2
    /\ \E r \in Range(items) :
          /\ heap[r]["name"] = Str("s2")
          /\ heap[r]["health"] # Str("at-risk")

\* C3: no two items of the collection have the same id.
C3_UniqueIds ==
    \A i, j \in DOMAIN items :
        i # j => heap[items[i]]["id"] # heap[items[j]]["id"]

----------------------------------------------------------------------------
(* Claims about hierarchies, checked under SpecTree.                       *)

\* o has the shape of a node: the required fields, optional fields of their
\* declared types when present, and arrays under the child array names.
NodeShapeOK(o) ==
    /\ SixRequiredValid(o)
    /\ \A k \in {"type", "description"} \cap DOMAIN o : o[k].t \in {"string", "undefined"}
    /\ \A k \in {"createdAt", "updatedAt"} \cap DOMAIN o : o[k].t \in {"Date", "undefined"}
    /\ \A k \in FourChildArrays \cap DOMAIN o : o[k].t \in {"array", "undefined"}

\* Every element of every child array refers to an object with the shape of
\* a node (and so, the quantifier ranging over all objects, recursively).
ElementsValid ==
    \A p \in DOMAIN heap : \A k \in FourChildArrays \cap DOMAIN heap[p] :
        /\ heap[p][k].t = "array"
        /\ \A i \in DOMAIN heap[p][k].a :
              /\ heap[p][k].a[i].t = "ref"
              /\ heap[p][k].a[i].r \in DOMAIN heap
              /\ NodeShapeOK(heap[heap[p][k].a[i].r])

\* No node is reachable from itself through child arrays.
Acyclic(h) == \A p \in DOMAIN h : p \notin Descendants(h, p)

\* In this step no object that existed before gains an entry in a child
\* array: whatever is added to a child array is newly created.
OnlyFreshAttached ==
    \A p \in DOMAIN heap' : \A k \in FourChildArrays : \A c \in DOMAIN heap :
        CountIn(heap', p, k, c) <= CountIn(heap, p, k, c)

SingleOwnerNoBackRef(h) ==
    /\ \A c \in DOMAIN h : Occurrences(h, c) <= 1
    /\ \A p \in DOMAIN h : \A c \in Children(h, p) : p \notin Children(h, c)

RemovalCascades(h, h2, roots, p, k, i) ==
    LET a == ChildArray(h, p, k)
        sub == ReachFrom(h, {a[i].r})
    IN /\ ReachFrom(h2, Range(roots)) \cap sub = {}
       /\ (ReachFrom(h, Range(roots)) \ sub) \subseteq ReachFrom(h2, Range(roots))
       /\ DOMAIN h2 = DOMAIN h
       /\ \A n \in DOMAIN h \ (sub \cup {p}) : h2[n] = h[n]
       /\ DOMAIN h2[p] = DOMAIN h[p]
       /\ \A key \in DOMAIN h[p] \ {k} : h2[p][key] = h[p][key]
       /\ ChildArray(h2, p, k) =
             [j \in 1..(Len(a) - 1) |-> IF j < i THEN a[j] ELSE a[j + 1]]

----------------------------------------------------------------------------
(* Claims about sortExecutionItems, checked under SpecSort.                *)

\* How many entries of the list l are x.
Multiplicity(l, x) == Cardinality({i \in DOMAIN l : l[i] = x})

\* C15: once sortExecutionItems has returned, every two adjacent items of
\* the returned list whose column values are both defined are in
\* non-decreasing order of that value for asc and in non-increasing order
\* for desc.
C15_AdjacentPairsInOrder ==
    result # 0 =>
        \A i \in 1..(Len(arrays[result]) - 1) :
            LET v == Get(heap[arrays[result][i]], config.column)
                w == Get(heap[arrays[result][i + 1]], config.column)
            IN (v.t # "undefined" /\ w.t # "undefined") =>
                  IF config.direction = "asc" THEN ~Less(w, v) ELSE ~Less(v, w)

\* C16: the call leaves the array it was passed as it was, returns another
\* array that holds the same items with the same multiplicities, and alters
\* no item.
C16_SortsACopy ==
    [][result' # 0 =>
          /\ arrays'[input] = arrays[input]
          /\ result' # input
          /\ Len(arrays'[result']) = Len(arrays[input])
          /\ \A x \in DOMAIN heap :
                Multiplicity(arrays'[result'], x) = Multiplicity(arrays[input], x)
          /\ heap' = heap]_vars

\* A list of three items has been sorted into another order than it had.
C16_ReorderedCopyReturned ==
    /\ result # 0
    /\ Len(arrays[input]) = 3
    /\ arrays[result] # arrays[input]

\* C17: for the configured column and direction and all items a, b, c,
\* compare(a, b) = -compare(b, a), and compare(a, b) <= 0 and
\* compare(b, c) <= 0 give compare(a, c) <= 0.
C17_ComparatorIsOrdering ==
    \A a, b, c \in DOMAIN heap :
        /\ Compare(heap, a, b, config) = -Compare(heap, b, a, config)
        /\ (Compare(heap, a, b, config) <= 0 /\ Compare(heap, b, c, config) <= 0)
              => Compare(heap, a, c, config) <= 0

----------------------------------------------------------------------------
(* Claims about ExecutionItemsList, checked under SpecList.                *)

\* C18: currentPage changes only by a click on Load More, which is offered
\* only while the displayed response has hasMore = true, increases
\* currentPage by exactly one and starts one fetch, for the new page; and
\* whenever no fetch is outstanding the displayed response is the one
\* fetched for currentPage.
C18_DisplayedPageIsCurrentPage ==
    /\ [](inflight = {} => (response # Null /\ response.forPage = currentPage))
    /\ [][currentPage' # currentPage =>
             /\ response # Null /\ response.hasMore = Bool(TRUE)
             /\ currentPage' = currentPage + 1
             /\ currentPage' \notin inflight
             /\ inflight' = inflight \cup {currentPage'}]_vars

====
